---- MODULE Spec2Model ----
(***************************************************************************)
(* Algorithm Visualizer Pro (src/DAAproject.py): the six event generators  *)
(* and the playback controller AlgorithmVisualizerPro (start, _run_step,   *)
(* pause, step, reset, randomize) together with the Tk timer queue.        *)
(*                                                                         *)
(* Python lists are 0-based; a list is a TLA+ sequence and the element at  *)
(* Python index i is At(arr, i) = arr[i + 1].  Indices carried by events   *)
(* are the Python (0-based) indices.                                       *)
(***************************************************************************)
EXTENDS Integers, Sequences, FiniteSets, TLC

(***************************************************************************)
(* Bounds of the model.                                                    *)
(***************************************************************************)
\* SpecGen (a generator consumed on its own): lists of length 0..GenMaxLen
\* over 1..GenMaxVal
GenMaxLen == 3
GenMaxVal == 3
\* SpecRun (start, pause, step and the timer): initial arrays of length
\* 2..RunMaxLen over 1..RunMaxVal
RunMaxLen == 3
RunMaxVal == 2
\* Spec (every handler): the size field holds 0..MaxSize, randomize() draws
\* values 1..MaxVal and reset(), whose arrays have at least ResetMinSize
\* elements, values 1..ResetMaxVal
MaxSize == 2
MaxVal == 2
ResetMaxVal == 1
\* the target field holds 0..MaxTarget; a subset-sum generator consumed on
\* its own is given a target in 0..GenMaxTarget
MaxTarget == 0
GenMaxTarget == 5
\* SpecSize (reset and randomize alone): the size field holds 0..MaxWideSize
MaxWideSize == 201

(***************************************************************************)
(* Program constants.                                                      *)
(***************************************************************************)
RandomizeMinSize == 2
ResetMinSize == 5
MaxArraySize == 200

None == "None"

Min(a, b) == IF a < b THEN a ELSE b
Max(a, b) == IF a > b THEN a ELSE b

At(arr, i) == arr[i + 1]
Put(arr, i, v) == [arr EXCEPT ![i + 1] = v]
\* a swap that loses an element: only arr[i] = arr[j] is done
ExchangeLost(arr, i, j) == [arr EXCEPT ![i + 1] = arr[j + 1]]
\* arr[i], arr[j] = arr[j], arr[i]
Exchange(arr, i, j) == [arr EXCEPT ![i + 1] = arr[j + 1], ![j + 1] = arr[i + 1]]

(***************************************************************************)
(* Operation events: the dicts the generators yield.  keys is the set of   *)
(* keys the dict has; a field whose key is absent holds a filler.          *)
(***************************************************************************)
Event(t, ks, ind, idx, val, arr, ch, s, c) ==
    [type |-> t, keys |-> ks, indices |-> ind, index |-> idx, value |-> val,
     array |-> arr, chosen |-> ch, sum |-> s, choice |-> c]

EvCompare(i, j) ==
    Event("compare", {"type", "indices"}, <<i, j>>, -1, -1, <<>>, <<>>, -1, FALSE)
EvHighlight(i) ==
    Event("highlight", {"type", "indices"}, <<i>>, -1, -1, <<>>, <<>>, -1, FALSE)
EvSwap(i, j, arr) ==
    Event("swap", {"type", "indices", "array"}, <<i, j>>, -1, -1, arr, <<>>, -1, FALSE)
EvShift(i, j, arr) ==
    Event("shift", {"type", "indices", "array"}, <<i, j>>, -1, -1, arr, <<>>, -1, FALSE)
EvInsert(idx, arr) ==
    Event("insert", {"type", "index", "array"}, <<>>, idx, -1, arr, <<>>, -1, FALSE)
EvMergeWrite(idx, val, arr) ==
    Event("mergewrite", {"type", "index", "value", "array"}, <<>>, idx, val, arr, <<>>, -1, FALSE)
EvDecide(idx, c, ch, s) ==
    Event("decide", {"type", "index", "choice", "chosen", "sum"}, <<>>, idx, -1, <<>>, ch, s, c)
EvCheck(ch, s) ==
    Event("check", {"type", "chosen", "sum"}, <<>>, -1, -1, <<>>, ch, s, FALSE)
EvDone(arr) ==
    Event("done", {"type", "array"}, <<>>, -1, -1, arr, <<>>, -1, FALSE)
EvDoneBare ==
    Event("done", {"type"}, <<>>, -1, -1, <<>>, <<>>, -1, FALSE)

(***************************************************************************)
(* A generator run is computed as the sequence of its yield points.  Each  *)
(* yield point holds the event yielded (op) and the state, at that yield,  *)
(* of the list object the caller passed in (arr), which the generator      *)
(* mutates in place.  st = [arr, out] threads the list and the yields made *)
(* so far through the loops.                                               *)
(***************************************************************************)
Yield(st, ev) == [st EXCEPT !.out = Append(@, [op |-> ev, arr |-> st.arr])]

\* ---- bubble_sort_generator ----
\* an inner loop that runs over the whole list in every pass
RECURSIVE BubbleInnerWhole(_, _, _)
BubbleInnerWhole(st, i, j) ==
    IF j >= Len(st.arr) - 1 THEN st
    ELSE LET s1 == Yield(st, EvCompare(j, j + 1))
         IN  IF At(s1.arr, j) > At(s1.arr, j + 1)
             THEN LET s2 == [s1 EXCEPT !.arr = Exchange(@, j, j + 1)]
                  IN  BubbleInnerWhole(Yield(s2, EvSwap(j, j + 1, s2.arr)), i, j + 1)
             ELSE BubbleInnerWhole(s1, i, j + 1)

RECURSIVE BubbleInner(_, _, _)
BubbleInner(st, i, j) ==
    IF j >= Len(st.arr) - i - 1 THEN st
    ELSE LET s1 == Yield(st, EvCompare(j, j + 1))
         IN  IF At(s1.arr, j) > At(s1.arr, j + 1)
             THEN LET s2 == [s1 EXCEPT !.arr = Exchange(@, j, j + 1)]
                  IN  BubbleInner(Yield(s2, EvSwap(j, j + 1, s2.arr)), i, j + 1)
             ELSE BubbleInner(s1, i, j + 1)

RECURSIVE BubbleOuter(_, _)
BubbleOuter(st, i) ==
    IF i >= Len(st.arr) THEN st
    ELSE BubbleOuter(BubbleInner(st, i, 0), i + 1)

bubble_sort_generator(arr) ==
    LET st == BubbleOuter([arr |-> arr, out |-> <<>>], 0)
    IN  Yield(st, EvDone(st.arr)).out

\* ---- selection_sort_generator ----
\* st additionally carries min_idx
RECURSIVE SelectionInner(_, _)
SelectionInner(st, j) ==
    IF j >= Len(st.arr) THEN st
    ELSE LET s1 == Yield(st, EvCompare(st.min_idx, j))
         IN  IF At(s1.arr, j) < At(s1.arr, s1.min_idx)
             THEN SelectionInner(Yield([s1 EXCEPT !.min_idx = j], EvHighlight(j)), j + 1)
             ELSE SelectionInner(s1, j + 1)

RECURSIVE SelectionOuter(_, _)
SelectionOuter(st, i) ==
    IF i >= Len(st.arr) THEN st
    ELSE LET s1 == SelectionInner([st EXCEPT !.min_idx = i], i + 1)
         IN  IF s1.min_idx # i
             THEN LET s2 == [s1 EXCEPT !.arr = Exchange(@, i, s1.min_idx)]
                  IN  SelectionOuter(Yield(s2, EvSwap(i, s1.min_idx, s2.arr)), i + 1)
             ELSE SelectionOuter(s1, i + 1)

selection_sort_generator(arr) ==
    LET st == SelectionOuter([arr |-> arr, out |-> <<>>, min_idx |-> 0], 0)
    IN  Yield(st, EvDone(st.arr)).out

\* ---- insertion_sort_generator ----
\* the while loop: returns [arr, out, j]
RECURSIVE InsertionWhile(_, _, _)
InsertionWhile(st, j, key) ==
    IF j >= 0 /\ At(st.arr, j) > key
    THEN LET s1 == Yield(st, EvCompare(j, j + 1))
             s2 == [s1 EXCEPT !.arr = Put(@, j + 1, At(s1.arr, j))]
         IN  InsertionWhile(Yield(s2, EvShift(j, j + 1, s2.arr)), j - 1, key)
    ELSE [arr |-> st.arr, out |-> st.out, j |-> j]

RECURSIVE InsertionOuter(_, _)
InsertionOuter(st, i) ==
    IF i >= Len(st.arr) THEN st
    ELSE LET key == At(st.arr, i)
             s1 == Yield(st, EvHighlight(i))
             w == InsertionWhile(s1, i - 1, key)
             s2 == [arr |-> Put(w.arr, w.j + 1, key), out |-> w.out]
         IN  InsertionOuter(Yield(s2, EvInsert(w.j + 1, s2.arr)), i + 1)

insertion_sort_generator(arr) ==
    LET st == InsertionOuter([arr |-> arr, out |-> <<>>], 1)
    IN  Yield(st, EvDone(st.arr)).out

\* ---- merge_sort_generator ----
\* st additionally carries aux; MergeRange is the nested generator
\* merge_range(l, m, r), its three while loops in turn
RECURSIVE MergeCompareLoop(_, _, _, _, _, _)
MergeCompareLoop(st, i, j, k, m, r) ==
    IF i < m /\ j < r
    THEN LET s1 == Yield(st, EvCompare(i, j))
             left == At(s1.aux, i) <= At(s1.aux, j)
             s2 == [s1 EXCEPT !.arr = Put(@, k, IF left THEN At(s1.aux, i) ELSE At(s1.aux, j))]
             s3 == Yield(s2, EvMergeWrite(k, At(s2.arr, k), s2.arr))
         IN  IF left THEN MergeCompareLoop(s3, i + 1, j, k + 1, m, r)
                     ELSE MergeCompareLoop(s3, i, j + 1, k + 1, m, r)
    ELSE [st |-> st, i |-> i, j |-> j, k |-> k]

RECURSIVE MergeDrain(_, _, _, _)
\* while src < lim: arr[k] = aux[src]; src += 1; k += 1; yield mergewrite
MergeDrain(st, src, k, lim) ==
    IF src < lim
    THEN LET s1 == [st EXCEPT !.arr = Put(@, k, At(st.aux, src))]
         IN  MergeDrain(Yield(s1, EvMergeWrite(k, At(s1.arr, k), s1.arr)), src + 1, k + 1, lim)
    ELSE [st |-> st, k |-> k]

MergeRange(st, l, m, r) ==
    LET c == MergeCompareLoop(st, l, m, l, m, r)
        d1 == MergeDrain(c.st, c.i, c.k, m)
        d2 == MergeDrain(d1.st, c.j, d1.k, r)
    IN  d2.st

\* for k in range(l, r): aux[k] = arr[k]
CopyToAux(st, l, r) ==
    [st EXCEPT !.aux = [k \in 1..Len(st.aux) |->
                           IF l <= k - 1 /\ k - 1 < r THEN st.arr[k] ELSE st.aux[k]]]

RECURSIVE MergeBlocks(_, _, _)
\* for i in range(0, n, 2*width)
MergeBlocks(st, i, width) ==
    LET n == Len(st.arr)
    IN  IF i >= n THEN st
        ELSE LET l == i
                 m == Min(i + width, n)
                 r == Min(i + 2 * width, n)
             IN  MergeBlocks(MergeRange(CopyToAux(st, l, r), l, m, r), i + 2 * width, width)

RECURSIVE MergeWidths(_, _)
\* while width < n: ...; width *= 2
MergeWidths(st, width) ==
    IF width < Len(st.arr)
    THEN MergeWidths(MergeBlocks(st, 0, width), 2 * width)
    ELSE st

merge_sort_generator(arr) ==
    LET st == MergeWidths([arr |-> arr, out |-> <<>>, aux |-> arr], 1)
    IN  Yield(st, EvDone(st.arr)).out

\* ---- quick_sort_generator ----
\* st additionally carries stack, a sequence of <<low, high>>; pop takes the last
RECURSIVE QuickPartition(_, _, _, _, _)
\* for j in range(low, high): returns [st, i]
QuickPartition(st, i, j, high, pivot) ==
    IF j >= high THEN [st |-> st, i |-> i]
    ELSE LET s1 == Yield(st, EvCompare(j, high))
         IN  IF At(s1.arr, j) < pivot
             THEN LET s2 == [s1 EXCEPT !.arr = Exchange(@, i, j)]
                  IN  QuickPartition(Yield(s2, EvSwap(i, j, s2.arr)), i + 1, j + 1, high, pivot)
             ELSE QuickPartition(s1, i, j + 1, high, pivot)

RECURSIVE QuickLoop(_)
\* while stack:
QuickLoop(st) ==
    IF st.stack = <<>> THEN st
    ELSE LET top == st.stack[Len(st.stack)]
             low == top[1]
             high == top[2]
             s0 == [st EXCEPT !.stack = SubSeq(@, 1, Len(@) - 1)]
         IN  IF low < high
             THEN LET pivot == At(s0.arr, high)
                      q == QuickPartition(s0, low, low, high, pivot)
                      s1 == [q.st EXCEPT !.arr = Exchange(@, q.i, high)]
                      s2 == Yield(s1, EvSwap(q.i, high, s1.arr))
                      p == q.i
                  IN  QuickLoop([s2 EXCEPT !.stack = @ \o <<<<low, p - 1>>, <<p + 1, high>>>>])
             ELSE QuickLoop(s0)

quick_sort_generator(arr) ==
    LET st == QuickLoop([arr |-> arr, out |-> <<>>, stack |-> <<<<0, Len(arr) - 1>>>>])
    IN  Yield(st, EvDone(st.arr)).out

\* ---- subset_sum_generator ----
\* st additionally carries chosen; Backtrack is the nested generator backtrack(i, current_sum)
\* a backtrack that does not clear chosen[i] when it returns
RECURSIVE BacktrackStale(_, _, _)
BacktrackStale(st, i, current_sum) ==
    IF i = Len(st.arr)
    THEN Yield(st, EvCheck(st.chosen, current_sum))
    ELSE LET e0 == [st EXCEPT !.chosen = Put(@, i, FALSE)]
             e1 == Yield(e0, EvDecide(i, FALSE, e0.chosen, current_sum))
             e2 == BacktrackStale(e1, i + 1, current_sum)
             i0 == [e2 EXCEPT !.chosen = Put(@, i, TRUE)]
             i1 == Yield(i0, EvDecide(i, TRUE, i0.chosen, current_sum + At(i0.arr, i)))
         IN  BacktrackStale(i1, i + 1, current_sum + At(i1.arr, i))

\* a backtrack that explores the include branch first
RECURSIVE BacktrackIncludeFirst(_, _, _)
BacktrackIncludeFirst(st, i, current_sum) ==
    IF i = Len(st.arr)
    THEN Yield(st, EvCheck(st.chosen, current_sum))
    ELSE LET i0 == [st EXCEPT !.chosen = Put(@, i, TRUE)]
             i1 == Yield(i0, EvDecide(i, TRUE, i0.chosen, current_sum + At(i0.arr, i)))
             i2 == BacktrackIncludeFirst(i1, i + 1, current_sum + At(i1.arr, i))
             e0 == [i2 EXCEPT !.chosen = Put(@, i, FALSE)]
             e1 == Yield(e0, EvDecide(i, FALSE, e0.chosen, current_sum))
         IN  BacktrackIncludeFirst(e1, i + 1, current_sum)

RECURSIVE Backtrack(_, _, _)
Backtrack(st, i, current_sum) ==
    IF i = Len(st.arr)
    THEN Yield(st, EvCheck(st.chosen, current_sum))
    ELSE LET e0 == [st EXCEPT !.chosen = Put(@, i, FALSE)]
             e1 == Yield(e0, EvDecide(i, FALSE, e0.chosen, current_sum))
             e2 == Backtrack(e1, i + 1, current_sum)
             i0 == [e2 EXCEPT !.chosen = Put(@, i, TRUE)]
             i1 == Yield(i0, EvDecide(i, TRUE, i0.chosen, current_sum + At(i0.arr, i)))
             i2 == Backtrack(i1, i + 1, current_sum + At(i1.arr, i))
         IN  [i2 EXCEPT !.chosen = Put(@, i, FALSE)]

\* the for loop over backtrack(0, 0): a check whose sum is the target is
\* yielded with its type set to "solution"
\* a marker for every leaf whose sum reaches the target
ReclassifyReaching(y, target) ==
    IF y.op.type = "check" /\ y.op.sum >= target
    THEN [y EXCEPT !.op.type = "solution"]
    ELSE y

Reclassify(y, target) ==
    IF y.op.type = "check" /\ y.op.sum = target
    THEN [y EXCEPT !.op.type = "solution"]
    ELSE y

\* a generator that returns at the first solution
subset_sum_generatorStopping(arr, target) ==
    LET st == Backtrack([arr |-> arr, out |-> <<>>,
                         chosen |-> [k \in 1..Len(arr) |-> FALSE]], 0, 0)
        through == [k \in 1..Len(st.out) |-> Reclassify(st.out[k], target)]
        found == {k \in 1..Len(through) : through[k].op.type = "solution"}
        last == IF found = {} THEN Len(through)
                ELSE CHOOSE k \in found : \A m \in found : k <= m
    IN  Append(SubSeq(through, 1, last), [op |-> EvDoneBare, arr |-> st.arr])

subset_sum_generator(arr, target) ==
    LET st == Backtrack([arr |-> arr, out |-> <<>>,
                         chosen |-> [k \in 1..Len(arr) |-> FALSE]], 0, 0)
        through == [k \in 1..Len(st.out) |-> Reclassify(st.out[k], target)]
    IN  Append(through, [op |-> EvDoneBare, arr |-> st.arr])

(***************************************************************************)
(* Algorithm names of the option menu, and the generator each one selects  *)
(* (the if/elif chain of start() and step()).                              *)
(***************************************************************************)
SortNames == {"Bubble Sort", "Selection Sort", "Insertion Sort", "Merge Sort", "Quick Sort"}
AlgNames == SortNames \cup {"Subset Sum"}

MakeGenerator(alg, arr_copy, target) ==
    CASE alg = "Bubble Sort" -> bubble_sort_generator(arr_copy)
      [] alg = "Selection Sort" -> selection_sort_generator(arr_copy)
      [] alg = "Insertion Sort" -> insertion_sort_generator(arr_copy)
      [] alg = "Merge Sort" -> merge_sort_generator(arr_copy)
      [] alg = "Quick Sort" -> quick_sort_generator(arr_copy)
      [] alg = "Subset Sum" -> subset_sum_generator(arr_copy, target)

(***************************************************************************)
(* The controller AlgorithmVisualizerPro.                                  *)
(*                                                                         *)
(* Program state: the fields running, generator, current_operation,        *)
(* after_id and array of the object, and timers, the ids of the            *)
(* self.after(...) callbacks of _run_step that Tk holds pending.           *)
(*                                                                         *)
(* generator is None or a generator object [ops, pos]: ops the sequence of *)
(* yield points the generator function makes on the list it was given,     *)
(* pos how many of them next() has returned so far.                        *)
(*                                                                         *)
(* History (not program state): applied, the events pulled from the        *)
(* current generator object and given to _apply_operation since it was     *)
(* created; run, the algorithm, array and target the last generator was    *)
(* created from and who has pulled from it ("start": start() and the       *)
(* timer, "step": step(), "mixed": both); lastCall, the last handler that  *)
(* ran, the algorithm name selected, the phase the controller was in when  *)
(* the handler was called, and how the handler ended.                      *)
(***************************************************************************)
VARIABLES running, generator, current_operation, after_id, array, timers,
          applied, run, lastCall

vars == <<running, generator, current_operation, after_id, array, timers,
          applied, run, lastCall>>

\* a tk.IntVar holds text: get() returns the number it spells, or raises
\* TclError when it spells none (BadInput)
Numeric(n) == [numeric |-> TRUE, value |-> n]
BadInput == [numeric |-> FALSE, value |-> 0]
NumericTargets == {Numeric(n) : n \in 0..MaxTarget}
\* the numbers the size field holds
SizeInputs == 0..MaxSize
UnknownAlg == "Heap Sort"
AlgInputs == AlgNames \cup {UnknownAlg}

\* the None of the fields generator, current_operation and after_id
NoGenerator == [ops |-> <<>>, pos |-> -1]
NoOperation == Event("None", {}, <<>>, -1, -1, <<>>, <<>>, -1, FALSE)
NoTimer == 0

\* [random.randint(5, 400) for _ in range(size)], the values bounded by maxval
RandomArrays(size, maxval) == [1..size -> 1..maxval]

NoRun == [alg |-> None, base |-> <<>>, target |-> 0, by |-> None]

\* the object's fields and the history as one record, so that a handler can
\* call another (start -> _run_step, step -> pause, reset -> pause)
Self ==
    [running |-> running, generator |-> generator,
     current_operation |-> current_operation, after_id |-> after_id,
     array |-> array, timers |-> timers, applied |-> applied, run |-> run]

Commit(c, call) ==
    /\ running' = c.running
    /\ generator' = c.generator
    /\ current_operation' = c.current_operation
    /\ after_id' = c.after_id
    /\ array' = c.array
    /\ timers' = c.timers
    /\ applied' = c.applied
    /\ run' = c.run
    /\ lastCall' = call

\* the phase the controller is in
Phase ==
    IF running THEN "running"
    ELSE IF generator # NoGenerator THEN "paused" ELSE "idle"

\* lastCall.size when the handler did not read the size field
NoSize == -1

CallIn(op, alg, phase, result) ==
    [op |-> op, alg |-> alg, phase |-> phase, result |-> result, size |-> NoSize]
Call(op, alg, result) == CallIn(op, alg, Phase, result)

\* a handler returns (or raises): r.c is the object as it leaves it
Return(r, op, alg) == Commit(r.c, Call(op, alg, r.result))

\* the call of a handler that read the number size in the size field
SizedCall(op, size, result) == [Call(op, None, result) EXCEPT !.size = size]

\* self.after(delay, self._run_step) returns an id no pending callback has.
\* Tk never reuses an id; the model reuses the ids of callbacks that have
\* fired or were cancelled, which after_cancel cannot tell apart.
NewTimerId(pending) == CHOOSE n \in 1..(Cardinality(pending) + 1) :
                          /\ n \notin pending
                          /\ \A m \in 1..(n - 1) : m \in pending

\* generator object creation: the generator function is called on arr_copy
NewGenerator(alg, arr_copy, target) ==
    [ops |-> MakeGenerator(alg, arr_copy, target), pos |-> 0]

\* next(self.generator): StopIteration when Exhausted, else the event NextOp
\* is returned and the generator has advanced
Exhausted(g) == g.pos >= Len(g.ops)
NextOp(g) == g.ops[g.pos + 1].op
\* a generator that drops an event each time it is resumed
AdvanceSkipping(g) == [g EXCEPT !.pos = @ + 2]
Advance(g) == [g EXCEPT !.pos = @ + 1]

\* _apply_operation(op): the effect on self.array
ArrayTypes == {"swap", "shift", "insert", "mergewrite", "done"}
\* an _apply_operation without its 'shift' branch
apply_operationNoShift(arr, op) ==
    IF op.type \in (ArrayTypes \ {"shift"})
    THEN (IF "array" \in op.keys THEN op.array ELSE arr)
    ELSE arr

apply_operation(arr, op) ==
    IF op.type \in ArrayTypes
    THEN (IF "array" \in op.keys THEN op.array ELSE arr)
    ELSE arr

Driven(by, driver) == IF by = driver THEN by ELSE "mixed"

\* op = next(self.generator); self.current_operation = op;
\* self._apply_operation(op)
PullAndApply(c, driver) ==
    [c EXCEPT !.generator = Advance(@),
              !.current_operation = NextOp(c.generator),
              !.array = apply_operation(@, NextOp(c.generator)),
              !.applied = Append(@, NextOp(c.generator)),
              !.run.by = Driven(@, driver)]

\* self.after_id = self.after(delay, self._run_step)
Schedule(c, id) == [c EXCEPT !.after_id = id, !.timers = @ \cup {id}]

\* a _run_step that never calls self.after
run_stepUnscheduled(c) ==
    IF ~c.running \/ c.generator = NoGenerator THEN [c |-> c, result |-> "noop"]
    ELSE IF ~Exhausted(c.generator)
         THEN [c |-> PullAndApply(c, "start"), result |-> "pulled"]
         ELSE [c |-> [c EXCEPT !.running = FALSE, !.generator = NoGenerator,
                               !.current_operation = NoOperation],
               result |-> "exhausted"]

\* a _run_step that schedules the next pull only if the generator has more
\* to give, and finishes at once if it has not
run_stepLookahead(c) ==
    IF ~c.running \/ c.generator = NoGenerator THEN [c |-> c, result |-> "noop"]
    ELSE IF Exhausted(c.generator)
         THEN [c |-> [c EXCEPT !.running = FALSE, !.generator = NoGenerator,
                               !.current_operation = NoOperation],
               result |-> "exhausted"]
         ELSE IF Exhausted(Advance(c.generator))
              THEN [c |-> [PullAndApply(c, "start") EXCEPT !.running = FALSE],
                    result |-> "pulled"]
              ELSE [c |-> Schedule(PullAndApply(c, "start"), NewTimerId(c.timers)),
                    result |-> "pulled"]

\* _run_step()
run_step(c) ==
    IF ~c.running \/ c.generator = NoGenerator THEN [c |-> c, result |-> "noop"]
    ELSE IF ~Exhausted(c.generator)
         THEN [c |-> Schedule(PullAndApply(c, "start"), NewTimerId(c.timers)),
               result |-> "pulled"]
         ELSE [c |-> [c EXCEPT !.running = FALSE, !.generator = NoGenerator,
                               !.current_operation = NoOperation],
               result |-> "exhausted"]

\* a pause() that forgets self.after_cancel
pauseKeepsTimer(c) ==
    IF ~c.running THEN c ELSE [c EXCEPT !.running = FALSE]

\* pause()
pause(c) ==
    IF ~c.running THEN c
    ELSE [c EXCEPT !.running = FALSE,
                   !.timers = IF c.after_id # NoTimer THEN @ \ {c.after_id} ELSE @]

\* a chain that hands the generator the list the run before started from
PrepareFromBase(c, alg, target, by) ==
    [c EXCEPT !.generator = NewGenerator(alg, IF c.run = NoRun THEN c.array ELSE c.run.base,
                                         target.value),
              !.applied = <<>>,
              !.run = [alg |-> alg, base |-> c.array,
                       target |-> IF alg = "Subset Sum" THEN target.value ELSE 0,
                       by |-> by]]

\* the if/elif chain that prepares the generator, in start() and in step()
Prepare(c, alg, target, by) ==
    [c EXCEPT !.generator = NewGenerator(alg, c.array, target.value),
              !.applied = <<>>,
              !.run = [alg |-> alg, base |-> c.array,
                       target |-> IF alg = "Subset Sum" THEN target.value ELSE 0,
                       by |-> by]]

\* a start() without its test of self.running
startUnguarded(c, alg, target) ==
    IF alg \in SortNames \/ (alg = "Subset Sum" /\ target.numeric)
    THEN [c |-> run_step(Prepare([c EXCEPT !.running = TRUE], alg, target, "start")).c,
          result |-> "started"]
    ELSE IF alg = "Subset Sum"
         THEN [c |-> [c EXCEPT !.running = TRUE], result |-> "TclError"]
         ELSE [c |-> [c EXCEPT !.running = FALSE], result |-> "unknown_algorithm"]

\* a start() that resumes the generator it finds
startResuming(c, alg, target) ==
    IF c.running THEN [c |-> c, result |-> "noop"]
    ELSE IF c.generator # NoGenerator
         THEN [c |-> run_step([c EXCEPT !.running = TRUE]).c, result |-> "started"]
         ELSE startUnguarded(c, alg, target)

\* start(); result tells how it ended: "TclError" when self.target_var.get()
\* raised
start(c, alg, target) ==
    IF c.running THEN [c |-> c, result |-> "noop"]
    ELSE IF alg \in SortNames \/ (alg = "Subset Sum" /\ target.numeric)
         THEN [c |-> run_step(Prepare([c EXCEPT !.running = TRUE], alg, target, "start")).c,
               result |-> "started"]
         ELSE IF alg = "Subset Sum"
              THEN [c |-> [c EXCEPT !.running = TRUE], result |-> "TclError"]
              ELSE [c |-> [c EXCEPT !.running = FALSE], result |-> "unknown_algorithm"]

\* a step() that sets self.current_operation but never calls _apply_operation
StepPullUnapplied(c) ==
    IF ~Exhausted(c.generator)
    THEN [c |-> [c EXCEPT !.generator = Advance(@),
                          !.current_operation = NextOp(c.generator),
                          !.applied = Append(@, NextOp(c.generator)),
                          !.run.by = Driven(@, "step")],
          result |-> "pulled"]
    ELSE [c |-> [c EXCEPT !.generator = NoGenerator], result |-> "exhausted"]

\* step() from the pull on: c is the object once the generator is there
StepPull(c) ==
    IF ~Exhausted(c.generator)
    THEN [c |-> PullAndApply(c, "step"), result |-> "pulled"]
    ELSE [c |-> [c EXCEPT !.generator = NoGenerator], result |-> "exhausted"]

\* a step() whose if/elif chain falls back to bubble sort
StepPausedDefaulting(c, alg, target) ==
    IF c.generator # NoGenerator THEN StepPull(c)
    ELSE IF alg = "Subset Sum" /\ ~target.numeric
         THEN [c |-> c, result |-> "TclError"]
         ELSE IF alg \notin AlgNames
              THEN StepPull(Prepare(c, "Bubble Sort", target, "step"))
              ELSE StepPull(Prepare(c, alg, target, "step"))

\* step() from the test of self.generator on: c is the object once paused
StepPaused(c, alg, target) ==
    IF c.generator # NoGenerator THEN StepPull(c)
    ELSE IF alg = "Subset Sum" /\ ~target.numeric
         THEN [c |-> c, result |-> "TclError"]
         ELSE IF alg \notin AlgNames
              THEN [c |-> c, result |-> "unknown_algorithm"]
              ELSE StepPull(Prepare(c, alg, target, "step"))

\* a step() that does not pause first
stepUnpaused(c, alg, target) == StepPaused(c, alg, target)

\* step()
step(c, alg, target) == StepPaused(IF c.running THEN pause(c) ELSE c, alg, target)

\* reset() up to the read of self.size_var
ResetDiscard(c) ==
    [(IF c.running THEN pause(c) ELSE c)
        EXCEPT !.generator = NoGenerator, !.current_operation = NoOperation,
               !.applied = <<>>, !.run = NoRun]

\* a reset() that clamps the size as randomize() does
ResetSizeAsRandomize(size) == Max(RandomizeMinSize, Min(MaxArraySize, size))
ResetSize(size) == Max(ResetMinSize, Min(MaxArraySize, size))
RandomizeSize(size) == Max(RandomizeMinSize, Min(MaxArraySize, size))

(***************************************************************************)
(* Actions: one per handler the event loop can run.  The inputs are what   *)
(* the widgets hold when the handler reads them, one choice for each       *)
(* distinct way the handler can run: the target is read only for "Subset   *)
(* Sum", and a handler that returns before it reads the name (start() when *)
(* running, step() when it has a generator) is tried with one recognized   *)
(* and one unrecognized name selected.                                     *)
(***************************************************************************)
TargetsRead(alg) == IF alg = "Subset Sum" THEN NumericTargets ELSE {Numeric(0)}
NamesRead(read) == IF read THEN AlgInputs ELSE {"Bubble Sort", UnknownAlg}

Start ==
    \E alg \in NamesRead(~running) : \E target \in TargetsRead(alg) :
        Return(start(Self, alg, target), "start", alg)

Pause ==
    Commit(pause(Self), Call("pause", None, IF running THEN "paused" ELSE "noop"))

Step ==
    \E alg \in NamesRead(generator = NoGenerator) : \E target \in TargetsRead(alg) :
        Return(step(Self, alg, target), "step", alg)

\* reset() and randomize() with the size field holding one of sizes, the
\* values drawn from 1..maxval
ResetFrom(sizes, maxval) ==
    \E size \in sizes : \E a \in RandomArrays(ResetSize(size), maxval) :
        Commit([ResetDiscard(Self) EXCEPT !.array = a], SizedCall("reset", size, "reset"))

RandomizeFrom(sizes, maxval) ==
    \E size \in sizes : \E a \in RandomArrays(RandomizeSize(size), maxval) :
        Commit([Self EXCEPT !.array = a], SizedCall("randomize", size, "randomized"))

Reset == ResetFrom(SizeInputs, ResetMaxVal)

Randomize == RandomizeFrom(SizeInputs, MaxVal)

\* a pending after-callback fires: Tk forgets it and calls _run_step
Timer ==
    \E t \in timers :
        Return(run_step([Self EXCEPT !.timers = @ \ {t}]), "timer", None)

\* The same handlers when the field they read holds no number: start() and
\* step() with "Subset Sum" selected reach self.target_var.get(), reset() and
\* randomize() reach self.size_var.get(), and TclError propagates out of the
\* handler (Tk reports it and the event loop goes on).
StartBadTarget ==
    /\ ~running
    /\ Return(start(Self, "Subset Sum", BadInput), "start", "Subset Sum")

StepBadTarget ==
    /\ generator = NoGenerator
    /\ Return(step(Self, "Subset Sum", BadInput), "step", "Subset Sum")

ResetBadSize ==
    Commit(ResetDiscard(Self), Call("reset", None, "TclError"))

RandomizeBadSize ==
    Commit(Self, Call("randomize", None, "TclError"))

Idle(a) ==
    /\ running = FALSE
    /\ generator = NoGenerator
    /\ current_operation = NoOperation
    /\ after_id = NoTimer
    /\ array = a
    /\ timers = {}
    /\ applied = <<>>
    /\ run = NoRun
    /\ lastCall = CallIn("init", None, "idle", "init")

\* __init__: the array is random; the size field starts at 30 and the model
\* starts from the arrays randomize() gives for the sizes within its bound
Init ==
    \E n \in {RandomizeSize(size) : size \in SizeInputs} : \E a \in RandomArrays(n, MaxVal) : Idle(a)

Next ==
    \/ Start
    \/ Pause
    \/ Step
    \/ Reset
    \/ Randomize
    \/ Timer
    \/ StartBadTarget
    \/ StepBadTarget
    \/ ResetBadSize
    \/ RandomizeBadSize

Spec == Init /\ [][Next]_vars

(***************************************************************************)
(* SpecRun: playback alone (start, pause, step and the timer, the fields   *)
(* numeric), from richer arrays.                                           *)
(***************************************************************************)
InitRun ==
    \E n \in RandomizeMinSize..RunMaxLen : \E a \in RandomArrays(n, RunMaxVal) : Idle(a)

NextRun ==
    \/ Start
    \/ Pause
    \/ Step
    \/ Timer

SpecRun == InitRun /\ [][NextRun]_vars

(***************************************************************************)
(* SpecGen: a generator function called on a list and the generator        *)
(* consumed with next() until StopIteration, outside the controller.       *)
(* array is the list object the caller passed in, applied the events       *)
(* next() has returned, run.base the list as it was at the call.           *)
(***************************************************************************)
GenTargets(alg) == IF alg = "Subset Sum" THEN 0..GenMaxTarget ELSE {0}

InitGen ==
    \E n \in 0..GenMaxLen : \E a \in RandomArrays(n, GenMaxVal) :
      \E alg \in AlgNames : \E target \in GenTargets(alg) :
        /\ running = FALSE
        /\ generator = NewGenerator(alg, a, target)
        /\ current_operation = NoOperation
        /\ after_id = NoTimer
        /\ array = a
        /\ timers = {}
        /\ applied = <<>>
        /\ run = [alg |-> alg, base |-> a, target |-> target, by |-> "caller"]
        /\ lastCall = CallIn("call", alg, "idle", "created")

GenNext ==
    /\ generator # NoGenerator
    /\ ~Exhausted(generator)
    /\ generator' = Advance(generator)
    /\ current_operation' = NextOp(generator)
    /\ applied' = Append(applied, NextOp(generator))
    /\ array' = generator.ops[generator.pos + 1].arr
    /\ lastCall' = CallIn("next", run.alg, "idle", "pulled")
    /\ UNCHANGED <<running, after_id, timers, run>>

GenStop ==
    /\ generator # NoGenerator
    /\ Exhausted(generator)
    /\ generator' = NoGenerator
    /\ lastCall' = CallIn("next", run.alg, "idle", "exhausted")
    /\ UNCHANGED <<running, current_operation, after_id, array, timers, applied, run>>

NextGen ==
    \/ GenNext
    \/ GenStop

SpecGen == InitGen /\ [][NextGen]_vars

(***************************************************************************)
(* SpecAuto: start() and the timer alone; Tk runs every after-callback it  *)
(* holds once its delay has passed, so a pending callback fires            *)
(* eventually.                                                             *)
(***************************************************************************)
NextAuto ==
    \/ Start
    \/ Timer

SpecAuto == InitRun /\ [][NextAuto]_vars /\ WF_vars(Timer)

(***************************************************************************)
(* SpecValid: every button and the timer, the size and target fields       *)
(* holding numbers (no handler raises TclError).                           *)
(***************************************************************************)
NextValid ==
    \/ Start
    \/ Pause
    \/ Step
    \/ Reset
    \/ Randomize
    \/ Timer

SpecValid == Init /\ [][NextValid]_vars

(***************************************************************************)
(* SpecSize: reset() and randomize() alone, the size field holding any     *)
(* number of 0..MaxWideSize, the values drawn all equal.                   *)
(***************************************************************************)
WideSizes == 0..MaxWideSize

NextSize ==
    \/ ResetFrom(WideSizes, 1)
    \/ RandomizeFrom(WideSizes, 1)

SpecSize == Init /\ [][NextSize]_vars

(***************************************************************************)
(* Properties.                                                             *)
(***************************************************************************)
Range(s) == {s[i] : i \in DOMAIN s}
IsSorted(arr) == \A i \in 1..(Len(arr) - 1) : arr[i] <= arr[i + 1]
Occurrences(arr, v) == Cardinality({i \in DOMAIN arr : arr[i] = v})
IsPermutation(a, b) ==
    /\ Len(a) = Len(b)
    /\ \A v \in Range(a) \cup Range(b) : Occurrences(a, v) = Occurrences(b, v)
DoneAt(evs) == {i \in DOMAIN evs : evs[i].type = "done"}
Events(ops) == [i \in DOMAIN ops |-> ops[i].op]

\* the array _apply_operation leaves after the events evs, in order, from arr
RECURSIVE ApplyAll(_, _)
ApplyAll(arr, evs) ==
    IF evs = <<>> THEN arr
    ELSE ApplyAll(apply_operation(arr, Head(evs)), Tail(evs))

\* the fields of the controller a handler can change, but for the histories
CoreUnchanged ==
    UNCHANGED <<running, generator, current_operation, array, after_id, timers>>

\* this step applies an operation
Applies == applied' # applied /\ applied' # <<>>

\* this step pulls the next event of the generator the controller holds, and
\* applies it
PulledNext ==
    /\ generator # NoGenerator
    /\ generator.pos < Len(generator.ops)
    /\ generator' = [ops |-> generator.ops, pos |-> generator.pos + 1]
    /\ applied' = Append(applied, generator.ops[generator.pos + 1].op)

\* this step creates a generator on the controller's array and pulls its
\* first event, and applies it
StartedFresh ==
    /\ generator' # NoGenerator
    /\ generator'.pos = 1
    /\ run'.base = array
    /\ generator'.ops = MakeGenerator(run'.alg, array, run'.target)
    /\ applied' = <<generator'.ops[1].op>>

\* C1: a sorting generator (bubble, selection, insertion, merge, quick)
\* consumed to exhaustion has emitted exactly one 'done' event, as its last
\* event, and the array that event carries is sorted ascending and is a
\* permutation of the array the generator was called on.
C1_SortedPermutation ==
    (lastCall.op = "next" /\ lastCall.result = "exhausted" /\ run.alg \in SortNames) =>
        /\ DoneAt(applied) = {Len(applied)}
        /\ "array" \in applied[Len(applied)].keys
        /\ IsSorted(applied[Len(applied)].array)
        /\ IsPermutation(applied[Len(applied)].array, run.base)

\* a merge sort consumed to exhaustion on an unsorted list of the longest
\* length that holds a duplicate
C1_Witness ==
    /\ lastCall.op = "next"
    /\ lastCall.result = "exhausted"
    /\ run.alg = "Merge Sort"
    /\ Len(run.base) = GenMaxLen
    /\ ~IsSorted(run.base)
    /\ Cardinality(Range(run.base)) < Len(run.base)

\* the events applied and the array at the end of a run are those of the
\* whole sequence evs applied in order from the array the run started from
WholeRun(evs) ==
    /\ Len(applied) = Len(evs)
    /\ applied = evs
    /\ array = ApplyAll(run.base, evs)

\* C2: a run driven only by step() calls, and a run driven by start() and
\* the timer callback alone, each found exhausted, have applied the same
\* number of operations and end with the same array: the ones the generator
\* of that algorithm, array and target determines.
C2_StepRunEquivalence ==
    (lastCall.result = "exhausted" /\ run.by \in {"start", "step"}) =>
        WholeRun(Events(MakeGenerator(run.alg, run.base, run.target)))

\* a run of at least four operations that changed the array, driven by
\* step() alone and found exhausted by step()
C2_Witness ==
    /\ lastCall.op = "step"
    /\ lastCall.result = "exhausted"
    /\ run.by = "step"
    /\ Len(applied) >= 4
    /\ array # run.base

\* C3: in every step of every interleaving of the handlers and the timer,
\* the operations applied from the generator the controller holds are the
\* first pos events of that generator in order, and an operation applied is
\* either the next event of the generator held or the first event of a
\* generator created in that step: none is repeated or skipped, and none
\* comes from a generator that was discarded or replaced.
C3_AppliedInOrder ==
    [][/\ (generator' # NoGenerator =>
              /\ generator'.pos <= Len(generator'.ops)
              /\ applied' = Events(SubSeq(generator'.ops, 1, generator'.pos)))
       /\ (Applies => PulledNext \/ StartedFresh)]_vars

\* a generator created by start(), advanced by the timer and then by step()
C3_Witness ==
    /\ generator # NoGenerator
    /\ generator.pos >= 3
    /\ run.by = "mixed"
    /\ lastCall.op = "step"
    /\ lastCall.result = "pulled"

\* C4: pause() called when not running and start() called when running
\* change neither the running flag, the generator and its position, the most
\* recent operation, the array, nor the timers pending.
C4_NoOpCalls ==
    [][((lastCall'.op = "pause" /\ ~running) \/ (lastCall'.op = "start" /\ running))
          => CoreUnchanged]_vars

\* start() has returned at once, the controller running with a timer pending
C4_Witness ==
    /\ lastCall.op = "start"
    /\ lastCall.result = "noop"
    /\ lastCall.phase = "running"
    /\ running
    /\ timers # {}
    /\ generator.pos >= 2

\* C5 as stated: a start(), step(), reset() or randomize() whose read of the
\* target or of the size raises leaves the running flag, the generator, the
\* most recent operation, the array and the timers as they were.
C5_NothingMutated ==
    [][lastCall'.result = "TclError" => CoreUnchanged]_vars

\* C6 as stated: randomize() called while a run exists changes neither the
\* phase nor the array the controller presents.
C6_RandomizeInvisible ==
    [][(/\ lastCall'.op = "randomize"
        /\ lastCall'.result = "randomized"
        /\ (running \/ generator # NoGenerator))
          => UNCHANGED <<running, generator, array>>]_vars

\* C7: a reset() leaves the controller not running, without a generator,
\* its most recent operation cleared and no timer callback pending; and an
\* operation applied while the controller holds no generator is the first of
\* a generator created in that step, never one of a discarded run.
C7_ResetIdle ==
    [][/\ (lastCall'.op = "reset" =>
              /\ ~running'
              /\ generator' = NoGenerator
              /\ current_operation' = NoOperation
              /\ timers' = {}
              /\ applied' = <<>>)
       /\ ((generator = NoGenerator /\ Applies) => StartedFresh)]_vars

\* reset() was called while running, after a timer had been scheduled
C7_Witness ==
    /\ lastCall.op = "reset"
    /\ lastCall.result = "reset"
    /\ lastCall.phase = "running"
    /\ after_id # NoTimer
    /\ ~running
    /\ timers = {}

\* C8: start() called while not running, with a recognized name and a
\* readable target, leaves the controller running on a generator created in
\* that call from the current array, of which exactly the first operation
\* has been applied, and a timer callback pending; nothing of the generator
\* held before is resumed.
C8_StartReplaces ==
    [][(/\ lastCall'.op = "start"
        /\ ~running
        /\ lastCall'.alg \in AlgNames
        /\ lastCall'.result # "TclError")
          => /\ running'
             /\ StartedFresh
             /\ run'.alg = lastCall'.alg
             /\ after_id' \in timers']_vars

\* start() was called while paused on a generator, and runs a fresh one
C8_Witness ==
    /\ lastCall.op = "start"
    /\ lastCall.phase = "paused"
    /\ lastCall.alg \in SortNames
    /\ running
    /\ generator.pos = 1
    /\ Len(generator.ops) >= 4

\* this step() call reaches the pull: it has a generator, or it can create one
StepReachesPull ==
    \/ generator # NoGenerator
    \/ (lastCall'.alg \in AlgNames /\ lastCall'.result # "TclError")

\* C9: every step() call applies at most one operation and returns with the
\* controller not running and no timer pending; a call that reaches the pull
\* applies exactly one operation when the generator is not exhausted, keeps
\* the generator it found, and leaves no generator exactly when the pull
\* found the generator exhausted.
C9_StepOnce ==
    [][lastCall'.op = "step" =>
          /\ ~running'
          /\ timers' = {}
          /\ (applied' = applied \/ PulledNext \/ StartedFresh)
          /\ (StepReachesPull =>
                 /\ (generator' = NoGenerator <=>
                        (generator # NoGenerator /\ generator.pos >= Len(generator.ops)))
                 /\ (generator = NoGenerator => StartedFresh)
                 /\ ((generator # NoGenerator /\ generator.pos < Len(generator.ops))
                        => PulledNext))]_vars

\* step() was called while running and pulled from the generator it found
C9_Witness ==
    /\ lastCall.op = "step"
    /\ lastCall.phase = "running"
    /\ lastCall.result = "pulled"
    /\ generator.pos >= 2
    /\ ~running
    /\ timers = {}

\* C10 as stated: start() and step() with an unrecognized name selected
\* leave the running flag and the generator as they were, apply no operation
\* and schedule no timer.
C10_UnknownNameAborts ==
    [][(lastCall'.op \in {"start", "step"} /\ lastCall'.alg \notin AlgNames)
          => /\ UNCHANGED <<running, generator>>
             /\ applied' = applied
             /\ timers' \subseteq timers]_vars

\* C10, amended: start() and step() read the name only when they create a
\* generator (start() while not running, step() without a generator); with
\* an unrecognized name selected such a call leaves the generator and the
\* array as they were, applies no operation, schedules no timer, and returns
\* with the controller not running.
C10_UnknownNameAbortsWhenRead ==
    [][(/\ lastCall'.alg \notin AlgNames
        /\ \/ (lastCall'.op = "start" /\ ~running)
           \/ (lastCall'.op = "step" /\ generator = NoGenerator))
          => /\ ~running'
             /\ UNCHANGED <<generator, array>>
             /\ applied' = applied
             /\ timers' \subseteq timers]_vars

\* start() was called while paused on a generator with an unrecognized name
C10_Witness ==
    /\ lastCall.op = "start"
    /\ lastCall.alg = UnknownAlg
    /\ lastCall.phase = "paused"
    /\ lastCall.result = "unknown_algorithm"
    /\ generator # NoGenerator
    /\ ~running

(***************************************************************************)
(* Properties of the generators' event sequences.                          *)
(***************************************************************************)
IsLeaf(e) == e.type \in {"check", "solution"}
Leaves(evs) == SelectSeq(evs, IsLeaf)
IsCompare(e) == e.type = "compare"

RECURSIVE Pow2(_)
Pow2(n) == IF n = 0 THEN 1 ELSE 2 * Pow2(n - 1)

\* the sum of the elements of arr at the first k positions that chosen marks
RECURSIVE ChosenSumTo(_, _, _)
ChosenSumTo(arr, chosen, k) ==
    IF k = 0 THEN 0
    ELSE ChosenSumTo(arr, chosen, k - 1) + (IF chosen[k] THEN arr[k] ELSE 0)
ChosenSum(arr, chosen) == ChosenSumTo(arr, chosen, Len(chosen))

\* chosen read as a binary number, position 0 the most significant bit
RECURSIVE BinaryTo(_, _)
BinaryTo(chosen, k) ==
    IF k = 0 THEN 0
    ELSE 2 * BinaryTo(chosen, k - 1) + (IF chosen[k] THEN 1 ELSE 0)
BinaryValue(chosen) == BinaryTo(chosen, Len(chosen))

\* a generator of algorithm alg has been consumed to exhaustion
Consumed(alg) ==
    /\ lastCall.op = "next"
    /\ lastCall.result = "exhausted"
    /\ run.alg = alg

\* lv holds one leaf for each include/exclude assignment of n positions
OneLeafEach(lv, n) ==
    /\ Len(lv) = Pow2(n)
    /\ \A k \in DOMAIN lv : Len(lv[k].chosen) = n
    /\ \A k, m \in DOMAIN lv : k # m => lv[k].chosen # lv[m].chosen

\* C11: subset_sum_generator consumed to exhaustion on a list of length n
\* has emitted exactly 2^n leaf events ('check' or 'solution'), one for each
\* include/exclude assignment of the n positions, and one 'done', its last
\* event.
C11_AllLeaves ==
    Consumed("Subset Sum") =>
        /\ OneLeafEach(Leaves(applied), Len(run.base))
        /\ DoneAt(applied) = {Len(applied)}

\* the longest list, with a subset that makes the target
C11_Witness ==
    /\ Consumed("Subset Sum")
    /\ Len(run.base) = GenMaxLen
    /\ \E k \in DOMAIN applied : applied[k].type = "solution"
    /\ \E k \in DOMAIN applied : applied[k].type = "check"

\* C12: every leaf event subset_sum_generator has emitted is a 'solution'
\* exactly when the elements at the true positions of its chosen-set add up
\* to the target, a 'check' otherwise, and a 'solution' carries the target
\* as its sum.
C12_SolutionIffTarget ==
    run.alg = "Subset Sum" =>
        \A k \in DOMAIN applied :
            IsLeaf(applied[k]) =>
                /\ (applied[k].type = "solution"
                      <=> ChosenSum(run.base, applied[k].chosen) = run.target)
                /\ (applied[k].type = "solution" => applied[k].sum = run.target)

\* [2, 3] with target 5: the only solution is the leaf [true, true]
C12_Witness ==
    /\ Consumed("Subset Sum")
    /\ run.base = <<2, 3>>
    /\ run.target = 5
    /\ \A k \in DOMAIN applied :
          applied[k].type = "solution" <=>
              (IsLeaf(applied[k]) /\ applied[k].chosen = <<TRUE, TRUE>>)
    /\ \E k \in DOMAIN applied : applied[k].type = "solution" /\ applied[k].sum = 5

\* C13: bubble_sort_generator consumed to exhaustion on a list of length n
\* has emitted exactly n(n-1)/2 'compare' events, whatever the list holds.
C13_BubbleCompares ==
    Consumed("Bubble Sort") =>
        2 * Len(SelectSeq(applied, IsCompare)) = Len(run.base) * (Len(run.base) - 1)

\* a list of the longest length that is sorted already
C13_Witness ==
    /\ Consumed("Bubble Sort")
    /\ Len(run.base) = GenMaxLen
    /\ IsSorted(run.base)
    /\ Len(SelectSeq(applied, IsCompare)) >= 3

\* C14 as stated: the list the caller passed to the generator function is,
\* after any number of pulls, equal to what it was at the call.
C14_CallerListUntouched ==
    array = run.base

\* C15 as stated: after randomize() and after reset(), with the size field
\* holding s, the array has min(200, max(2, s)) elements.
C15_BothClampFromTwo ==
    (lastCall.op \in {"reset", "randomize"} /\ lastCall.size # NoSize) =>
        Len(array) = (IF lastCall.size < RandomizeMinSize THEN RandomizeMinSize
                      ELSE IF lastCall.size > MaxArraySize THEN MaxArraySize
                      ELSE lastCall.size)

\* C15, amended: with the size field holding s, the array has
\* min(200, max(2, s)) elements after randomize() and min(200, max(5, s))
\* after reset().
C15_ClampPerHandler ==
    /\ (lastCall.op = "randomize" /\ lastCall.size # NoSize) =>
          Len(array) = (IF lastCall.size < RandomizeMinSize THEN RandomizeMinSize
                        ELSE IF lastCall.size > MaxArraySize THEN MaxArraySize
                        ELSE lastCall.size)
    /\ (lastCall.op = "reset" /\ lastCall.size # NoSize) =>
          Len(array) = (IF lastCall.size < ResetMinSize THEN ResetMinSize
                        ELSE IF lastCall.size > MaxArraySize THEN MaxArraySize
                        ELSE lastCall.size)

\* reset() with the size field holding 3 gives five elements
C15_Witness ==
    /\ lastCall.op = "reset"
    /\ lastCall.size = 3
    /\ Len(array) = 5

(***************************************************************************)
(* Properties of the auto-advance loop.                                    *)
(***************************************************************************)
NonMutating == {"compare", "highlight", "decide", "check", "solution"}

\* C16: in a run driven by start(), pause(), step() and the timer, after
\* each operation applied the controller's array equals the list the
\* generator works on as it is at that yield, and an operation of a type
\* that carries no array leaves the controller's array as it was.
C16_ArrayFollowsGenerator ==
    [][Applies =>
          /\ array' = generator'.ops[generator'.pos].arr
          /\ (applied'[Len(applied')].type \in NonMutating => array' = array)]_vars

\* a 'shift' of insertion sort and a 'mergewrite' of merge sort have changed
\* the array
C16_Witness ==
    /\ generator # NoGenerator
    /\ current_operation.type \in {"shift", "mergewrite"}
    /\ array # run.base
    /\ array = generator.ops[generator.pos].arr
    /\ \E k \in DOMAIN applied : applied[k].type = "compare"

\* the run has finished: all its events applied, the last one 'done', and the
\* controller idle with the array that event carries (a sorting run)
FinishedRun ==
    /\ ~running
    /\ generator = NoGenerator
    /\ timers = {}
    /\ applied # <<>>
    /\ applied[Len(applied)].type = "done"
    /\ (run.alg \in SortNames => array = applied[Len(applied)].array)

\* C17: with start() and the timer alone, every pending callback firing
\* eventually, a running controller eventually reaches the finished state
\* (not running, no generator, no timer pending, its array the one the 'done'
\* event carries for a sorting run); once not running and without a
\* generator, no operation is applied unless start() is called again.
C17_RunFinishes ==
    /\ running ~> FinishedRun
    /\ [][(~running /\ generator = NoGenerator /\ Applies) => lastCall'.op = "start"]_vars

\* a sorting run that changed the array has finished on a timer firing
C17_Witness ==
    /\ FinishedRun
    /\ lastCall.op = "timer"
    /\ lastCall.result = "exhausted"
    /\ run.alg \in SortNames
    /\ array # run.base

\* this step is _run_step (called by start() or by the timer) applying an
\* operation
AutoApplies == lastCall'.op \in {"start", "timer"} /\ Applies

\* C18 as stated: after applying a pulled operation _run_step schedules the
\* next pull only if the generator has more operations; once the last one
\* ('done') is applied no timer is pending and the controller is not running.
C18_SchedulesOnlyIfMore ==
    [][AutoApplies =>
          IF generator'.pos < Len(generator'.ops)
          THEN running' /\ after_id' \in timers'
          ELSE ~running' /\ timers' = {}]_vars

\* C18, amended: _run_step schedules the next pull after every operation
\* it applies, the last one ('done') included, and the controller stays
\* running; the run ends when a timer firing finds the generator exhausted:
\* that firing applies nothing, schedules nothing, and clears running, the
\* generator and the most recent operation.
C18_SchedulesAfterEveryPull ==
    [][/\ (AutoApplies => running' /\ generator' # NoGenerator /\ after_id' \in timers')
       /\ ((/\ lastCall'.op = "timer"
            /\ running
            /\ generator # NoGenerator
            /\ generator.pos >= Len(generator.ops))
              => /\ ~running'
                 /\ generator' = NoGenerator
                 /\ current_operation' = NoOperation
                 /\ applied' = applied
                 /\ array' = array
                 /\ timers' \subseteq timers
                 /\ timers' # timers)]_vars

\* 'done' has been applied: the controller is still running, a timer pending
C18_Witness ==
    /\ running
    /\ generator # NoGenerator
    /\ generator.pos = Len(generator.ops)
    /\ current_operation.type = "done"
    /\ after_id \in timers

(***************************************************************************)
(* Properties of backtrack(i, current_sum).                                *)
(***************************************************************************)
IsCandidate(e) == e.type \in {"decide", "check", "solution"}

\* chosen-sets a and b agree on the positions 0..i-1
SamePrefix(a, b, i) == \A k \in 1..i : a[k] = b[k]

\* the event e belongs to the subtree the 'decide' event d opens
InSubtree(e, d) ==
    /\ IsCandidate(e)
    /\ SamePrefix(e.chosen, d.chosen, d.index + 1)
    /\ (e.type = "decide" => e.index > d.index)

\* C19: every 'decide', 'check' and 'solution' event subset_sum_generator
\* has emitted carries a chosen-set of length n and, as its sum, the sum of
\* the list's elements at the true positions of that set; in a 'decide'
\* event for index i every position after i is false.
C19_ChosenConsistent ==
    run.alg = "Subset Sum" =>
        \A k \in DOMAIN applied :
            IsCandidate(applied[k]) =>
                /\ Len(applied[k].chosen) = Len(run.base)
                /\ applied[k].sum = ChosenSum(run.base, applied[k].chosen)
                /\ (applied[k].type = "decide" =>
                      /\ applied[k].chosen[applied[k].index + 1] = applied[k].choice
                      /\ \A m \in (applied[k].index + 2)..Len(run.base) :
                            ~applied[k].chosen[m])

\* the include decision at index 0, taken after the exclude subtree has set
\* and cleared every later position
C19_Witness ==
    /\ run.alg = "Subset Sum"
    /\ Len(run.base) = GenMaxLen
    /\ current_operation # NoOperation
    /\ current_operation.type = "decide"
    /\ current_operation.index = 0
    /\ current_operation.choice
    /\ current_operation.sum = run.base[1]
    /\ \E k \in DOMAIN applied :
          IsLeaf(applied[k]) /\ \A m \in 2..GenMaxLen : applied[k].chosen[m]

\* C20: in what subset_sum_generator has emitted, every 'decide' event
\* with choice true at index i comes after the 'decide' event with choice
\* false of the same node, and everything between the two is the whole
\* exclude subtree of that node (its 2^(n-i-1) leaves included); the k-th
\* leaf event carries the chosen-set that reads k-1 in binary, position 0
\* the most significant bit.
C20_ExcludeFirst ==
    run.alg = "Subset Sum" =>
        /\ \A k \in DOMAIN Leaves(applied) :
              BinaryValue(Leaves(applied)[k].chosen) = k - 1
        /\ \A p \in DOMAIN applied :
              (applied[p].type = "decide" /\ applied[p].choice) =>
                 \E q \in 1..(p - 1) :
                    /\ applied[q].type = "decide"
                    /\ ~applied[q].choice
                    /\ applied[q].index = applied[p].index
                    /\ SamePrefix(applied[q].chosen, applied[p].chosen, applied[p].index)
                    /\ \A m \in (q + 1)..(p - 1) : InSubtree(applied[m], applied[q])
                    /\ Len(Leaves(SubSeq(applied, q + 1, p - 1)))
                          = Pow2(Len(run.base) - applied[p].index - 1)

\* the longest list explored to the end: all-false is the first leaf,
\* all-true the last
C20_Witness ==
    /\ Consumed("Subset Sum")
    /\ Len(run.base) = GenMaxLen
    /\ \A m \in 1..GenMaxLen : ~Leaves(applied)[1].chosen[m]
    /\ \A m \in 1..GenMaxLen : Leaves(applied)[Len(Leaves(applied))].chosen[m]

(***************************************************************************)
(* Properties of the timer and of the finished state.                      *)
(***************************************************************************)
\* C21: with the fields holding numbers, in every state reachable by
\* start(), pause(), step(), reset(), randomize() and timer firings at most
\* one _run_step callback is pending, and one is pending only while the
\* running flag is true; so no timer firing applies an operation while the
\* controller is paused, idle or finished.
C21_OneTimerWhileRunning ==
    /\ [](Cardinality(timers) <= 1 /\ (timers # {} => running))
    /\ [][(lastCall'.op = "timer" /\ Applies) => running]_vars

\* paused in the middle of a run the timer was driving: nothing is pending
C21_Witness ==
    /\ lastCall.op = "pause"
    /\ lastCall.result = "paused"
    /\ ~running
    /\ generator # NoGenerator
    /\ Len(applied) >= 2
    /\ after_id # NoTimer
    /\ timers = {}

\* a run has been exhausted and nothing has been started since
ExhaustedRun ==
    /\ ~running
    /\ generator = NoGenerator
    /\ applied # <<>>
    /\ applied[Len(applied)].type = "done"

\* C22: a run exhausted by the timer or by step() leaves the generator
\* None, as in idle; a step() called then with a recognized name creates a
\* fresh generator on the controller's current array, applies its first
\* operation and leaves the controller paused on it.
C22_StepAfterFinished ==
    [][/\ ((lastCall'.op \in {"timer", "step"} /\ lastCall'.result = "exhausted")
             => generator' = NoGenerator /\ ~running')
       /\ ((/\ lastCall'.op = "step"
            /\ ExhaustedRun
            /\ lastCall'.alg \in AlgNames)
              => /\ StartedFresh
                 /\ run'.alg = lastCall'.alg
                 /\ current_operation' = generator'.ops[1].op
                 /\ array' = apply_operation(array, generator'.ops[1].op)
                 /\ ~running'
                 /\ timers' = {})]_vars

\* step() after a started run came to its end: the new generator works on
\* the sorted array that run left
C22_Witness ==
    /\ lastCall.op = "step"
    /\ lastCall.phase = "idle"
    /\ lastCall.result = "pulled"
    /\ after_id # NoTimer
    /\ generator # NoGenerator
    /\ generator.pos = 1
    /\ applied = <<generator.ops[1].op>>
    /\ Len(run.base) = RunMaxLen
    /\ IsSorted(run.base)
    /\ ~running
====
